---- MODULE Spec2Model ----
(***************************************************************************)
(* Model of src/ocr_server.py: the MultiLanguageOCRServer facade           *)
(* (get_ocr_instance, process_image, process_batch, health_check), the     *)
(* module-level wrappers and the command-line entry point.                 *)
(*                                                                         *)
(* The file system is modelled by two directories: inputDir (data/input,   *)
(* its entries in the order iterdir() lists them) and outputDir            *)
(* (data/output).  The OCR engine and pdf2image are external               *)
(* collaborators: their outcome on a file is decided by the file's content *)
(* ("good", "corrupt", "empty") and by whether the file exists.            *)
(***************************************************************************)
EXTENDS Integers, Sequences, FiniteSets, TLC

\* ---------------------------------------------------------------- bounds
MaxFiles == 2      \* number of files the user has put in data/input
MaxTime  == 2      \* the clock (whole seconds) is capped here
MaxCalls == 1      \* operations invoked on one facade (Spec)
MaxBatchRuns == 2  \* process_batch runs on one facade (SpecBatch)

\* ------------------------------------------------- facade after __init__
supported_languages == <<"en", "es">>

Supported == {supported_languages[i] : i \in DOMAIN supported_languages}

default_lang == "es"

ocr_instances == [l \in Supported |-> [engine |-> "PaddleOCR", lang |-> l]]

image_extensions == {"jpg", "jpeg", "png", "bmp", "tiff", "tif", "pdf"}

\* ------------------------------------------------------------ input sets
NoLang == "<None>"                       \* the argument is absent (None)

Languages == {NoLang, "", "en", "es", "fr"}

RequestLanguages == {NoLang, "en", "fr"}   \* asked of process_image

BatchLanguages == {NoLang, "fr"}           \* asked of process_batch

Exts == {"png", "jpg", "pdf", "PDF", "txt"}

Contents == {"good", "corrupt", "empty"}

\* a file name: stem = base followed by k copies of "_page1", then "." ext;
\* the base "long" stands for a stem of 250 characters
Name(b, k, e) == [base |-> b, k |-> k, ext |-> e]

UserNames == {Name("a", 0, e) : e \in Exts}
               \cup {Name("a", 1, "jpg"), Name("long", 0, "png"), Name("long", 0, "pdf")}

MissingName == Name("a", 0, "bmp")       \* never present in data/input

\* str.lower() on an extension
Lower(e) == IF e = "PDF" THEN "pdf" ELSE e

\* Path.suffix.lower() in image_extensions
Matches(n) == Lower(n.ext) \in image_extensions

\* str(path).lower().endswith('.pdf')
IsPdf(n) == Lower(n.ext) = "pdf"

\* the file system refuses a file name of more than 255 bytes: a 250
\* character stem fits with its extension, not with a longer tail
TooLong(b) == b = "long"

\* `x or default`: None and "" are falsy
OrDefault(language) == IF language \in {NoLang, ""} THEN default_lang ELSE language

\* ------------------------------------------------------------------ state
VARIABLES inputDir,    \* data/input : the entries [name, content], in listing order
          outputDir,   \* data/output: file name -> JSON document
          now,         \* int(time.time())
          calls,       \* operations invoked so far
          ret,         \* the last operation and what it returned or raised
          writes       \* the output files the last operation wrote, in order

vars == <<inputDir, outputDir, now, calls, ret, writes>>

\* ------------------------------------------------------ get_ocr_instance
NoFallbackGetOcrInstance(language) ==
    LET lang == OrDefault(language)
    IN  IF lang \in DOMAIN ocr_instances
        THEN [raised |-> "", handle |-> ocr_instances[lang]]
        ELSE [raised |-> "KeyError", handle |-> [engine |-> "", lang |-> ""]]

get_ocr_instance(language) ==
    LET lang0 == OrDefault(language)
        lang  == IF lang0 \notin Supported THEN default_lang ELSE lang0
    IN  IF lang \in DOMAIN ocr_instances
        THEN [raised |-> "", handle |-> ocr_instances[lang]]
        ELSE [raised |-> "KeyError", handle |-> [engine |-> "", lang |-> ""]]

\* ------------------------------------------------------------ file system
InputPath(n) == [dir |-> "input", name |-> n]

Paths(names) == {[dir |-> d, name |-> n] : d \in {"rel", "input", "ext"}, n \in names}

\* lines 67-68: a relative path is looked up in data/input
ResolvePath(inDir, path) ==
    IF path.dir = "rel" THEN InputPath(path.name) ELSE path

\* the names of the entries of data/input
NamesOf(inDir) == {inDir[i].name : i \in DOMAIN inDir}

\* the content of the entry called n
ContentOf(inDir, n) == inDir[CHOOSE i \in DOMAIN inDir : inDir[i].name = n].content

\* the file behind a resolved path; nothing exists outside data/input
Exists(inDir, path) == path.dir = "input" /\ path.name \in NamesOf(inDir)

\* data/input after a file is saved: an existing entry is rewritten in
\* place, a new one is listed last
SaveInput(inDir, n, c) ==
    IF n \in NamesOf(inDir)
    THEN [i \in DOMAIN inDir |-> IF inDir[i].name = n
                                 THEN [name |-> n, content |-> c] ELSE inDir[i]]
    ELSE Append(inDir, [name |-> n, content |-> c])

\* a mapping with one more (or one replaced) entry
WriteFile(dir, n, doc) == [m \in DOMAIN dir \cup {n} |-> IF m = n THEN doc ELSE dir[m]]

\* input_dir / (Path(image_path).stem + "_page1.jpg")
Page1Name(n) == Name(n.base, n.k + 1, "jpg")

\* output_dir / f"{Path(image_path).stem}_{lang}_result.json"
ResultFile(n, lang) ==
    [kind |-> "result", base |-> n.base, k |-> n.k, lang |-> lang, ts |-> 0]

\* output_dir / f"batch_summary_{lang}_{int(time.time())}.json"
SummaryFile(lang, t) ==
    [kind |-> "summary", base |-> "", k |-> 0, lang |-> lang, ts |-> t]

\* time.time() after `d` more seconds
Later(t, d) == IF t + d > MaxTime THEN MaxTime ELSE t + d

\* json.load(json.dump(doc)) of a result record: the fields the record has
\* when it is dumped; a tuple inside the payload comes back as a list
Json(doc) ==
    IF doc.success THEN [doc EXCEPT !.result = [@ EXCEPT !.shape = "list"]] ELSE doc

\* ---------------------------------------------------------- process_image
\* lines 70-77: pdf2image.convert_from_path and the save of the first page
ConvertPdf(inDir, path) ==
    LET temp_img == Page1Name(path.name)
    IN  IF ~Exists(inDir, path) \/ ContentOf(inDir, path.name) = "corrupt"
        THEN [exc |-> "PDFPageCountError", inDir |-> inDir, image_path |-> path]
        ELSE IF ContentOf(inDir, path.name) = "empty"
        THEN [exc |-> "IndexError", inDir |-> inDir, image_path |-> path]
        ELSE IF TooLong(temp_img.base)
        THEN [exc |-> "OSError", inDir |-> inDir, image_path |-> path]
        ELSE [exc |-> "", inDir |-> SaveInput(inDir, temp_img, "good"),
              image_path |-> InputPath(temp_img)]

\* line 80: ocr.ocr(str(image_path), cls=detect_rotation); the payload
\* holds (text, score) pairs, Python tuples
EngineOcr(inDir, handle, path, cls) ==
    LET payload == [shape |-> "tuple", engine |-> handle.lang,
                    image |-> path, cls |-> cls]
    IN  IF Exists(inDir, path) /\ ContentOf(inDir, path.name) = "good"
        THEN [exc |-> "", result |-> payload]
        ELSE [exc |-> "RuntimeError", result |-> payload]

\* lines 83-92
Response(result, lang, t0, t1, detect_rotation, image_path) ==
    [success |-> TRUE, result |-> result, language |-> lang,
     processing_time |-> t1 - t0, timestamp |-> t1,
     version |-> "PaddleOCR 3.0.2 + PP-OCRv5",
     angle_detection |-> detect_rotation, image_path |-> image_path]

\* line 98: response["output_saved"] = str(output_file)
WithOutputSaved(r, output_file) ==
    [success |-> r.success, result |-> r.result, language |-> r.language,
     processing_time |-> r.processing_time, timestamp |-> r.timestamp,
     version |-> r.version, angle_detection |-> r.angle_detection,
     image_path |-> r.image_path, output_saved |-> output_file]

\* lines 102-110: the record built by `except Exception as e`
Failure(exc, lang, t0, t1, image_path) ==
    [success |-> FALSE, error |-> exc, language |-> lang,
     processing_time |-> t1 - t0, timestamp |-> t1, image_path |-> image_path]

\* lines 94-98: the dump of the response and the note of where it went
SaveOutput(outDir, response, lang) ==
    LET output_file == ResultFile(response.image_path.name, lang)
    IN  IF TooLong(output_file.base)
        THEN [exc |-> "OSError", outDir |-> outDir, wrote |-> <<>>,
              response |-> response]
        ELSE [exc |-> "", outDir |-> WriteFile(outDir, output_file, Json(response)),
              wrote |-> <<output_file>>,
              response |-> WithOutputSaved(response, output_file)]

\* what the try block hands on when it is left: exc names the exception
\* ("" when the block runs to its return) and image_path the value that
\* variable holds at that point
Left(exc, response, image_path, inDir, outDir, wrote, t) ==
    [exc |-> exc, response |-> response, image_path |-> image_path,
     inDir |-> inDir, outDir |-> outDir, wrote |-> wrote, t |-> t]

NoResponse == [success |-> FALSE]

\* lines 70-77: only a path ending in .pdf is converted
Convert(inDir, p0) ==
    IF IsPdf(p0.name) THEN ConvertPdf(inDir, p0)
    ELSE [exc |-> "", inDir |-> inDir, image_path |-> p0]

\* lines 94-100, once the response is dumped (or the dump has failed)
TrySaved(conv, sav, outDir, t1) ==
    IF sav.exc # ""
    THEN Left(sav.exc, NoResponse, conv.image_path, conv.inDir, outDir, <<>>, t1)
    ELSE Left("", sav.response, conv.image_path, conv.inDir, sav.outDir, sav.wrote, t1)

\* lines 83-100, once the engine has answered
TryRespond(conv, eng, resp, outDir, t1, lang, save_output) ==
    IF eng.exc # ""
    THEN Left(eng.exc, NoResponse, conv.image_path, conv.inDir, outDir, <<>>, t1)
    ELSE IF ~save_output
    THEN Left("", resp, conv.image_path, conv.inDir, outDir, <<>>, t1)
    ELSE TrySaved(conv, SaveOutput(outDir, resp, lang), outDir, t1)

\* lines 79-100, once the engine is chosen
TryEngine(conv, inst, eng, outDir, t0, t1, lang, detect_rotation, save_output) ==
    IF inst.raised # ""
    THEN Left(inst.raised, NoResponse, conv.image_path, conv.inDir, outDir, <<>>, t1)
    ELSE TryRespond(conv, eng,
             Response(eng.result, lang, t0, t1, detect_rotation, conv.image_path),
             outDir, t1, lang, save_output)

\* lines 70-100, once the path is resolved and a PDF converted
TryConverted(conv, inst, outDir, t0, t1, lang, detect_rotation, save_output) ==
    IF conv.exc # ""
    THEN Left(conv.exc, NoResponse, conv.image_path, conv.inDir, outDir, <<>>, t1)
    ELSE TryEngine(conv, inst,
             EngineOcr(conv.inDir, inst.handle, conv.image_path, detect_rotation),
             outDir, t0, t1, lang, detect_rotation, save_output)

\* lines 66-100: the body of the try block
TryBody(inDir, outDir, t0, path, lang, detect_rotation, save_output, d) ==
    TryConverted(Convert(inDir, ResolvePath(inDir, path)), get_ocr_instance(lang),
                 outDir, t0, Later(t0, d), lang, detect_rotation, save_output)

\* what process_image hands back; raised names an exception that escapes it
Returned(raised, value, b) ==
    [raised |-> raised, value |-> value,
     inDir |-> b.inDir, outDir |-> b.outDir, wrote |-> b.wrote, t |-> b.t]

\* a variant whose except clause does not cover OSError
NarrowExceptFinish(lang, t0, b) ==
    Returned(IF b.exc = "OSError" THEN b.exc ELSE "",
             IF b.exc = "" THEN b.response
             ELSE Failure(b.exc, lang, t0, b.t, b.image_path), b)

\* lines 100-110: the return of the response, or of the record built by
\* `except Exception`, which lets nothing out
Finish(lang, t0, b) ==
    Returned("",
             IF b.exc = "" THEN b.response
             ELSE Failure(b.exc, lang, t0, b.t, b.image_path), b)

\* lines 60-110: MultiLanguageOCRServer.process_image
process_image(inDir, outDir, t0, path, language, detect_rotation, save_output, d) ==
    Finish(OrDefault(language), t0,
           TryBody(inDir, outDir, t0, path, OrDefault(language),
                   detect_rotation, save_output, d))

\* ---------------------------------------------------------- process_batch
\* line 118: the entries of data/input with an image or PDF extension
RECURSIVE Enumerate(_)
Enumerate(inDir) ==
    IF inDir = <<>> THEN <<>>
    ELSE (IF Matches(inDir[1].name) THEN <<inDir[1].name>> ELSE <<>>)
         \o Enumerate(Tail(inDir))

\* sum(1 for r in results if pred)
RECURSIVE CountSuccess(_, _)
CountSuccess(results, flag) ==
    IF results = <<>> THEN 0
    ELSE (IF results[1].result.success = flag THEN 1 ELSE 0)
         + CountSuccess(Tail(results), flag)

\* lines 129-135: one process_image per listed file, in listing order
RECURSIVE RunItems(_, _, _, _, _, _, _, _)

\* a variant of the loop's step that stops at the first item that fails
AbortOnFailureStep(image_files, results, r, wrote, lang, d) ==
    IF ~r.value.success
    THEN [results |-> Append(results, [file |-> image_files[1], result |-> r.value]),
          inDir |-> r.inDir, outDir |-> r.outDir, wrote |-> wrote \o r.wrote, t |-> r.t]
    ELSE RunItems(Tail(image_files),
                  Append(results, [file |-> image_files[1], result |-> r.value]),
                  r.inDir, r.outDir, wrote \o r.wrote, r.t, lang, d)

\* lines 131-135: the result r of one item is appended and the loop goes on
Step(image_files, results, r, wrote, lang, d) ==
    IF r.raised # ""
    THEN [results |-> results, inDir |-> r.inDir, outDir |-> r.outDir,
          wrote |-> wrote \o r.wrote, t |-> r.t]
    ELSE RunItems(Tail(image_files),
                  Append(results, [file |-> image_files[1], result |-> r.value]),
                  r.inDir, r.outDir, wrote \o r.wrote, r.t, lang, d)

RunItems(image_files, results, inDir, outDir, wrote, t, lang, d) ==
    IF image_files = <<>>
    THEN [results |-> results, inDir |-> inDir, outDir |-> outDir, wrote |-> wrote, t |-> t]
    ELSE Step(image_files, results,
              process_image(inDir, outDir, t, InputPath(image_files[1]), lang,
                            TRUE, TRUE, d),
              wrote, lang, d)

\* lines 138-145
BatchSummary(image_files, results, lang, t) ==
    [total_files |-> Len(image_files),
     successful  |-> CountSuccess(results, TRUE),
     failed      |-> CountSuccess(results, FALSE),
     language    |-> lang,
     timestamp   |-> t,
     results     |-> results]

\* json.load(json.dump(batch_summary))
JsonSummary(batch_summary) ==
    [batch_summary EXCEPT !.results =
        [i \in DOMAIN batch_summary.results |->
            [file |-> batch_summary.results[i].file,
             result |-> Json(batch_summary.results[i].result)]]]

\* lines 147-151: the summary is dumped and returned
WriteSummary(batch_summary, summary_file, run) ==
    [raised |-> "", value |-> batch_summary, inDir |-> run.inDir,
     outDir |-> WriteFile(run.outDir, summary_file, JsonSummary(batch_summary)),
     wrote |-> Append(run.wrote, summary_file), t |-> run.t]

\* lines 120-151, given the listing and the outcome of the loop
Summarise(image_files, run, inDir, outDir, t0, lang) ==
    IF image_files = <<>>
    THEN [raised |-> "",
          value |-> [success |-> FALSE,
                     error |-> "No se encontraron archivos en el directorio input",
                     input_dir |-> "input"],
          inDir |-> inDir, outDir |-> outDir, wrote |-> <<>>, t |-> t0]
    ELSE WriteSummary(BatchSummary(image_files, run.results, lang, run.t),
                      SummaryFile(lang, run.t), run)

\* lines 112-151: MultiLanguageOCRServer.process_batch
process_batch(inDir, outDir, t0, language, d) ==
    Summarise(Enumerate(inDir),
              RunItems(Enumerate(inDir), <<>>, inDir, outDir, <<>>, t0,
                       OrDefault(language), d),
              inDir, outDir, t0, OrDefault(language))

\* ----------------------------------------------------------- health_check
\* a variant that notes a failing language in its entry and carries on
RECURSIVE PerLanguageCatchHealthLoop(_, _, _, _)
PerLanguageCatchHealthLoop(i, tests, failing, d) ==
    IF i > Len(supported_languages) THEN [exc |-> "", tests |-> tests]
    ELSE LET lang == supported_languages[i]
         IN  PerLanguageCatchHealthLoop(i + 1,
                 WriteFile(tests, lang,
                     [status |-> IF lang \in failing THEN "error" ELSE "ok",
                      response_time |-> d]),
                 failing, d)

\* lines 166-174: the loop over the supported languages; `failing` are the
\* languages whose engine raises on the test image
RECURSIVE HealthLoop(_, _, _, _)
HealthLoop(i, tests, failing, d) ==
    IF i > Len(supported_languages) THEN [exc |-> "", tests |-> tests]
    ELSE LET lang == supported_languages[i]
             inst == get_ocr_instance(lang)
         IN  IF inst.raised # "" THEN [exc |-> inst.raised, tests |-> tests]
             ELSE IF lang \in failing THEN [exc |-> "RuntimeError", tests |-> tests]
             ELSE HealthLoop(i + 1,
                      WriteFile(tests, lang, [status |-> "ok", response_time |-> d]),
                      failing, d)

\* lines 155-181, given the outcome of the loop
HealthStatus(imgOK, loop) ==
    IF ~imgOK THEN [status |-> "unhealthy", error |-> "ImportError"]
    ELSE IF loop.exc # "" THEN [status |-> "unhealthy", error |-> loop.exc]
    ELSE [status |-> "healthy", version |-> "PaddleOCR 3.0.2",
          supported_languages |-> supported_languages,
          language_tests |-> loop.tests]

\* lines 153-181: MultiLanguageOCRServer.health_check; imgOK is whether
\* numpy could be imported and the test image built
health_check(imgOK, failing, d) == HealthStatus(imgOK, HealthLoop(1, <<>>, failing, d))

\* ------------------------------------------------- module-level wrappers
\* line 185: def process_image(image_path, language=None)
WrapperParams == {"image_path", "language"}

\* lines 185-186: a call of the wrapper that passes the named arguments
\* `given`; Python raises TypeError for a keyword the signature lacks
ModuleProcessImage(given, inDir, outDir, t0, path, language, d) ==
    IF given \subseteq WrapperParams
    THEN process_image(inDir, outDir, t0, path, language, TRUE, FALSE, d)
    ELSE [raised |-> "TypeError", value |-> [success |-> FALSE],
          inDir |-> inDir, outDir |-> outDir, wrote |-> <<>>, t |-> t0]

\* ------------------------------------------------------------------- Init
\* what a file with this extension can hold
ContentsFor(n) == IF IsPdf(n) THEN Contents ELSE Contents \ {"empty"}

Entries == {[name |-> n, content |-> c] : n \in UserNames, c \in Contents}

\* the directories of at most k files the user can have prepared
InputDirs(k) ==
    UNION {{dir \in [1..len -> Entries] :
              /\ \A i \in 1..len : dir[i].content \in ContentsFor(dir[i].name)
              /\ \A i, j \in 1..len : i # j => dir[i].name # dir[j].name} :
           len \in 0..k}

\* line 183: the facade is built, both directories exist, nothing is written
Fresh ==
    /\ outputDir = <<>>
    /\ now = 0
    /\ calls = 0
    /\ ret = [op |-> "__init__", raised |-> ""]
    /\ writes = <<>>

\* one operation looks at one file: data/input holds at most one
Init == inputDir \in InputDirs(1) /\ Fresh

\* a batch walks the directory: data/input holds up to MaxFiles files
InitBatch == inputDir \in InputDirs(MaxFiles) /\ Fresh

\* ---------------------------------------------------------------- actions
\* an operation that leaves the file system alone returns
Return(op, args, value, t) ==
    /\ ret' = [op |-> op, args |-> args, raised |-> "", value |-> value]
    /\ now' = t
    /\ writes' = <<>>
    /\ calls' = calls + 1
    /\ UNCHANGED <<inputDir, outputDir>>

\* an operation ends with outcome r: what it did to both directories and
\* what it handed back
Commit(op, args, r) ==
    /\ inputDir' = r.inDir
    /\ outputDir' = r.outDir
    /\ now' = r.t
    /\ writes' = r.wrote
    /\ calls' = calls + 1
    /\ ret' = [op |-> op, args |-> args, raised |-> r.raised, value |-> r.value]

\* a call of ocr_server.get_ocr_instance(language)
GetOcrInstance(language, r) ==
    /\ ret' = [op |-> "get_ocr_instance", args |-> [language |-> language],
               raised |-> r.raised, value |-> r.handle]
    /\ writes' = <<>>
    /\ calls' = calls + 1
    /\ UNCHANGED <<inputDir, outputDir, now>>

\* a call of ocr_server.process_image(image_path, language, detect_rotation, save_output)
ProcessImage(path, language, detect_rotation, save_output, d) ==
    Commit("process_image",
           [image_path |-> path, language |-> language,
            detect_rotation |-> detect_rotation, save_output |-> save_output],
           process_image(inputDir, outputDir, now, path, language,
                         detect_rotation, save_output, d))

\* a call of ocr_server.process_batch(language)
ProcessBatch(language, d) ==
    Commit("process_batch",
           [language |-> language, listing |-> Enumerate(inputDir)],
           process_batch(inputDir, outputDir, now, language, d))

\* a call of ocr_server.health_check()
HealthCheck(imgOK, failing, d) ==
    Return("health_check", [imgOK |-> imgOK, failing |-> failing],
           health_check(imgOK, failing, d), Later(now, d))

\* lines 194-217: the command line.  mode is what sys.argv[1] is ("usage"
\* when there is none, "path" when it is neither flag); language is
\* sys.argv[2], NoLang when there is none.  stdout is what gets printed
MainUsage ==
    /\ ret' = [op |-> "main", args |-> [mode |-> "usage"], raised |-> "",
               stdout |-> "usage"]
    /\ writes' = <<>>
    /\ calls' = calls + 1
    /\ UNCHANGED <<inputDir, outputDir, now>>

\* the end of a run of the command line that called an operation
Exit(args, r) ==
    /\ inputDir' = r.inDir
    /\ outputDir' = r.outDir
    /\ now' = r.t
    /\ writes' = r.wrote
    /\ calls' = calls + 1
    /\ ret' = [op |-> "main", args |-> args, raised |-> r.raised,
               stdout |-> IF r.raised = "" THEN "json" ELSE "", value |-> r.value]

\* lines 196-198
MainHealth(imgOK, failing, d) ==
    Exit([mode |-> "--health"],
         [raised |-> "", value |-> health_check(imgOK, failing, d),
          inDir |-> inputDir, outDir |-> outputDir, wrote |-> <<>>, t |-> Later(now, d)])

\* lines 199-202
MainBatch(language, d) ==
    Exit([mode |-> "--batch", language |-> language],
         process_batch(inputDir, outputDir, now, language, d))

\* lines 203-207
MainPath(path, language, d) ==
    Exit([mode |-> "path", image_path |-> path, language |-> language],
         ModuleProcessImage({"save_output"}, inputDir, outputDir, now,
                            path, language, d))

\* a second passes with no call in progress
Tick ==
    /\ now < MaxTime
    /\ now' = now + 1
    /\ UNCHANGED <<inputDir, outputDir, calls, ret, writes>>

\* the paths a caller can name: the files of data/input and one that is not
\* there, relative or absolute, and a path outside data/input
CallPaths == Paths(NamesOf(inputDir) \cup {MissingName})

CallInstance ==
    /\ calls < MaxCalls
    /\ \E language \in Languages : GetOcrInstance(language, get_ocr_instance(language))

CallImage ==
    /\ calls < MaxCalls
    /\ \E path \in CallPaths, language \in RequestLanguages,
          detect_rotation \in BOOLEAN, save_output \in BOOLEAN, d \in 0..1 :
         ProcessImage(path, language, detect_rotation, save_output, d)

CallBatch ==
    /\ calls < MaxCalls
    /\ \E language \in BatchLanguages, d \in 0..1 : ProcessBatch(language, d)

CallHealth ==
    /\ calls < MaxCalls
    /\ \E imgOK \in BOOLEAN, failing \in SUBSET Supported, d \in 0..1 :
         HealthCheck(imgOK, failing, d)

RunUsage == calls < MaxCalls /\ MainUsage

RunHealth ==
    /\ calls < MaxCalls
    /\ \E imgOK \in BOOLEAN, failing \in SUBSET Supported, d \in 0..1 :
         MainHealth(imgOK, failing, d)

RunBatch ==
    /\ calls < MaxCalls
    /\ \E language \in BatchLanguages, d \in 0..1 : MainBatch(language, d)

RunPath ==
    /\ calls < MaxCalls
    /\ \E path \in CallPaths, language \in RequestLanguages, d \in 0..1 :
         MainPath(path, language, d)

Next ==
    \/ CallInstance
    \/ CallImage
    \/ CallBatch
    \/ CallHealth
    \/ RunUsage
    \/ RunHealth
    \/ RunBatch
    \/ RunPath
    \/ Tick

Spec == Init /\ [][Next]_vars

\* repeated batch runs over one directory; the seconds that pass are those
\* of the runs themselves
RepeatBatch ==
    /\ calls < MaxBatchRuns
    /\ \E language \in BatchLanguages, d \in 0..1 : ProcessBatch(language, d)

NextBatch == RepeatBatch

SpecBatch == InitBatch /\ [][NextBatch]_vars

\* ------------------------------------------------------------------ claims
\* C3: get_ocr_instance returns the handle of the requested language when it
\* is en or es, the handle of the default language for every other or absent
\* code, and never fails
C3_ResolutionTotal ==
    ret.op = "get_ocr_instance" =>
        /\ ret.raised = ""
        /\ ret.value = [engine |-> "PaddleOCR",
                        lang |-> IF ret.args.language \in {"en", "es"}
                                 THEN ret.args.language ELSE "es"]

C3_Witness ==
    /\ ret.op = "get_ocr_instance"
    /\ ret.args.language = "fr"
    /\ ret.value.lang = "es"

\* the paths a call can be working on: the resolved path, or the first-page
\* image of the PDF it names
Attempted(path) ==
    LET p == IF path.dir = "rel" THEN [dir |-> "input", name |-> path.name] ELSE path
    IN  {p, [dir |-> "input", name |-> [base |-> p.name.base, k |-> p.name.k + 1,
                                         ext |-> "jpg"]]}

\* the file named by the call is not there, or cannot be read, or the name
\* of what has to be written for it is refused
MustFail(path, save_output) ==
    \/ path.dir = "ext"
    \/ path.name \notin NamesOf(inputDir)
    \/ ContentOf(inputDir, path.name) # "good"
    \/ path.name.ext \in {"pdf", "PDF"} /\ path.name.base = "long"
    \/ save_output /\ path.name.base = "long"

\* C1: no exception escapes process_image; whenever something fails inside
\* it (the file is missing, the conversion fails, the page list is empty,
\* the engine or the dump of the result raises) it returns a record with
\* success false, an error string and the fields language, processing_time,
\* timestamp and image_path, the path that was attempted
C1_NoExceptionEscapes ==
    ret.op = "process_image" =>
        /\ ret.raised = ""
        /\ ret.value.success = ~MustFail(ret.args.image_path, ret.args.save_output)
        /\ ~ret.value.success =>
             /\ DOMAIN ret.value = {"success", "error", "language", "processing_time",
                                    "timestamp", "image_path"}
             /\ ret.value.image_path \in Attempted(ret.args.image_path)

C1_Witness ==
    /\ ret.op = "process_image"
    /\ ~ret.value.success
    /\ ret.value.error = "OSError"
    /\ ret.args.save_output
    /\ ret.args.image_path.name.ext = "png"

\* the language whose engine serves a request for `language`
ResolvedLanguage(language) == IF language \in {"en", "es"} THEN language ELSE "es"

\* C2: the language field of every record process_image returns is the
\* resolved language: the requested code when it is supported, the default
\* language otherwise
C2_LanguageIsResolved ==
    ret.op = "process_image" =>
        ret.value.language = ResolvedLanguage(ret.args.language)

\* C5: the command line `<program> <path> [language]` reaches the print of
\* the JSON result, and when OCR succeeds a result file has been written
C5_CommandLinePrintsResult ==
    (ret.op = "main" /\ ret.args.mode = "path") =>
        /\ ret.raised = ""
        /\ ret.stdout = "json"
        /\ ret.value.success =>
             /\ writes # <<>>
             /\ writes[1].kind = "result"
             /\ writes[1] \in DOMAIN outputDir

\* C6: after a successful process_image with save_output, the file it wrote
\* holds, when parsed, every field of the returned record (output_saved
\* included) with an equal value
C6_SavedFileRoundTrips ==
    (ret.op = "process_image" /\ ret.args.save_output /\ ret.value.success) =>
        /\ "output_saved" \in DOMAIN ret.value
        /\ ret.value.output_saved \in DOMAIN outputDir
        /\ \A field \in DOMAIN ret.value :
             /\ field \in DOMAIN outputDir[ret.value.output_saved]
             /\ outputDir[ret.value.output_saved][field] = ret.value[field]

\* C7: health_check answers "healthy" exactly when every supported language
\* has an entry with status "ok" in language_tests; when the test image
\* cannot be built or an engine call fails it answers "unhealthy" with the
\* error and with no per-language entries
C7_HealthyIffAllOk ==
    ret.op = "health_check" =>
        LET v == ret.value
            failure == ~ret.args.imgOK \/ ret.args.failing # {}
        IN  /\ (v.status = "healthy") <=>
                 /\ "language_tests" \in DOMAIN v
                 /\ \A l \in {"en", "es"} :
                      /\ l \in DOMAIN v.language_tests
                      /\ v.language_tests[l].status = "ok"
            /\ failure => /\ v.status = "unhealthy"
                          /\ DOMAIN v = {"status", "error"}
            /\ ~failure => v.status = "healthy"

C7_Witness ==
    /\ ret.op = "health_check"
    /\ ret.args.imgOK
    /\ ret.args.failing = {"es"}
    /\ ret.value.status = "unhealthy"

\* the indices of the results of the last batch run with this success flag
Outcomes(flag) ==
    {i \in DOMAIN ret.value.results : ret.value.results[i].result.success = flag}

\* a listed file whose content the run itself does not rewrite: it is not
\* the first-page image of a listed PDF
Untouched(n, listing) ==
    ~\E j \in DOMAIN listing :
        /\ listing[j].ext \in {"pdf", "PDF"}
        /\ n = [base |-> listing[j].base, k |-> listing[j].k + 1, ext |-> "jpg"]

\* a file that can be processed: readable, and no name built from its stem
\* is refused
KnownGood(n) == ContentOf(inputDir, n) = "good" /\ n.base # "long"

BatchRan == ret.op = "process_batch" /\ ret.args.listing # <<>>

C8_SummaryNeverOverwritten ==
    [][(calls' = calls + 1 /\ ret'.op = "process_batch" /\ writes' # <<>>) =>
          writes'[Len(writes')] \notin DOMAIN outputDir]_vars

\* C9: the operations leave the set of files that process_batch enumerates
\* as it was
C9_EnumeratedFilesUnchanged ==
    [][Enumerate(inputDir') = Enumerate(inputDir)]_vars

\* C10: within one batch run no two items that succeed are given the same
\* output_saved path
C10_ResultFilesDistinct ==
    BatchRan =>
        \A i, j \in Outcomes(TRUE) :
            i # j => ret.value.results[i].result.output_saved
                       # ret.value.results[j].result.output_saved

====
